---- MODULE Spec2Model ----
(***************************************************************************)
(* squirrel_navigation::LocalPlanner (local_planner.cpp): the closed-loop  *)
(* local trajectory controller.  Lengths and headings are integers in      *)
(* units of 1e-8 (m, rad), so that the code's epsilon 1e-8 is one unit;    *)
(* headings are whole quarter turns, for which cos and sin are exact.      *)
(* Distances are compared through their squares: hypot(dx,dy) > t is       *)
(* dx*dx + dy*dy > t*t for t >= 0.                                         *)
(*                                                                         *)
(* The safety observers, the replanning guard, the motion planner, the     *)
(* PID controller and math_utils are other files of the package; they are  *)
(* modelled after their contracts.  What the observers' safe() and the     *)
(* guard's enabled() answer during a tick are inputs of the tick.  Each    *)
(* operation of the host (tick, goal query, plan) and each callback is one *)
(* step in Spec; LimiterSpec and FrameSpec call the functions of the       *)
(* command shaper on their own; ThreadSpec runs the operations statement   *)
(* by statement on the host's thread and the spinner's thread, and         *)
(* ThreadFairSpec adds a fair scheduler to it.                             *)
(*                                                                         *)
(* tfPointCloud (preprocessing.cpp): the point cloud filter node.          *)
(* ClassifySpec runs the classification of preprocessing statement by      *)
(* statement on a team of OpenMP threads; FilterSpec takes one step per    *)
(* message of msgCallback.                                                 *)
(***************************************************************************)
EXTENDS Integers, Sequences, FiniteSets, TLC

\* ---------------------------------------------------------------- bounds
MaxCoord == 2      \* positions are 0..MaxCoord along the x axis
MaxQ     == 1      \* headings are 0..MaxQ quarter turns
MaxLen   == 2      \* waypoints per plan
MaxTime  == 1      \* odometry time stamps are 0..MaxTime
MaxAccum == 1      \* bound of the controller's integral accumulators
MaxVel   == 2      \* twist components handed to the shaper are -MaxVel..MaxVel
MaxLimit == 2      \* velocity limits of a configuration are 0..MaxLimit

\* ------------------------------------------------------------- constants
Eps         == 1            \* 1e-8, local_planner.cpp:338-339
QuarterTurn == 157079632    \* pi/2 in units of 1e-8 rad
DefaultMaxLinVelocity == 5  \* 0.5 m/s, defaultParams
DefaultMaxAngVelocity == 7  \* 0.7 rad/s, defaultParams

NoGoal == [none |-> TRUE]   \* current_goal_ == nullptr

Abs(n) == IF n < 0 THEN 0 - n ELSE n

\* ----------------------------------------------------------------- types
Positions == 0..MaxCoord
Quarters  == 0..MaxQ
Poses     == [x : Positions, y : {0}, q : Quarters]
ZeroPose  == [x |-> 0, y |-> 0, q |-> 0]

\* A twist: linear part (lx, ly) / sqrt(dsq), angular part az.
Twist(lx, ly, dsq, az) == [lx |-> lx, ly |-> ly, dsq |-> dsq, az |-> az]
ZeroTwist  == Twist(0, 0, 1, 0)
StaleTwist == Twist(7, 7, 1, 7)     \* what the caller's cmd may hold on entry
CmdInputs  == {ZeroTwist, StaleTwist}
OdomTwists == {Twist(1, 0, 1, 1)}

\* ControllerConfig values delivered by the configuration channel.
Configs ==
  { [goal_lin_tolerance |-> 0, goal_ang_tolerance |-> 0,
     max_safe_lin_velocity |-> 1, max_safe_ang_velocity |-> 1,
     max_safe_lin_displacement |-> 1,
     max_safe_ang_displacement |-> QuarterTurn],
    [goal_lin_tolerance |-> 1, goal_ang_tolerance |-> QuarterTurn,
     max_safe_lin_velocity |-> 1, max_safe_ang_velocity |-> 1,
     max_safe_lin_displacement |-> 0,
     max_safe_ang_displacement |-> 0] }

Observers == {"scan_safety_observer", "arm_skin_observer"}

\* Plans handed to setPlan: up to MaxLen waypoints, every waypoint before
\* the terminal one being the start pose of the plan.
WaypointSeqs ==
  {<<>>} \cup { [i \in 1..n |-> IF i = n THEN p ELSE ZeroPose] :
                  n \in 1..MaxLen, p \in Poses }

VARIABLES
  current_goal,      \* current_goal_: NoGoal or a pose
  replanning_flag,   \* the ReplanningGuard singleton's flag
  robot_pose,        \* robot_pose_: [pose, stamp]
  robot_twist,       \* robot_twist_.twist
  params,            \* params_
  motion_planner,    \* motion_planner_: [waypoints, start]
  controller,        \* controller_: the accumulators
  last,              \* what the latest operation returned and published
  state_mtx,         \* state_mtx_: the thread that holds it, or "free"
  pc,                \* the statement each thread executes next
  frame,             \* the local variables of each thread's call
  sensor_base_link_trans,  \* tfPointCloud: the sensor's offset to base_link
  static_front_threshold,  \* tfPointCloud: the StaticFrontThreshold parameter
  counter,           \* tfPointCloud: the frame counter
  previous_cloud,    \* tfPointCloud: static points of the last message
  previous_dynamic,  \* tfPointCloud: dynamic points of the last message
  cloud_processed,   \* preprocessing: the finite points, in base_link
  is_ground,         \* preprocessing: the per-point flags
  static_indices,    \* preprocessing: indices of the static points
  dynamic_indices,   \* preprocessing: indices of the other points
  omp,               \* preprocessing: the iteration each OpenMP thread is at
  prep_pc            \* preprocessing: the statement the call is at

planner == <<current_goal, replanning_flag, robot_pose, robot_twist, params,
             motion_planner, controller>>

filter == <<sensor_base_link_trans, static_front_threshold, counter,
            previous_cloud, previous_dynamic, cloud_processed, is_ground,
            static_indices, dynamic_indices, omp, prep_pc>>

vars == <<current_goal, replanning_flag, robot_pose, robot_twist, params,
          motion_planner, controller, last, state_mtx, pc, frame, filter>>

\* The point cloud filter is not running.
FilterIdle ==
  /\ sensor_base_link_trans = 0
  /\ static_front_threshold = 0
  /\ counter = 0
  /\ previous_cloud = <<>>
  /\ previous_dynamic = <<>>
  /\ cloud_processed = <<>>
  /\ is_ground = <<>>
  /\ static_indices = <<>>
  /\ dynamic_indices = <<>>
  /\ omp = <<>>
  /\ prep_pc = "idle"

\* The threads: the host's control thread, which calls
\* computeVelocityCommands, isGoalReached and setPlan, and the spinner
\* thread, which delivers the odometry and the reconfiguration callbacks.
Threads == {"host", "spinner"}

threads == <<state_mtx, pc, frame>>

\* No call is in progress.
NoFrame == [host |-> [op |-> "none"], spinner |-> [op |-> "none"]]

ThreadsIdle ==
  /\ state_mtx = "free"
  /\ pc = [t \in Threads |-> "idle"]
  /\ frame = NoFrame

\* ------------------------------------------------------------ math utils
linearDistance2DSq(a, b) ==
  (a.x - b.x) * (a.x - b.x) + (a.y - b.y) * (a.y - b.y)

\* hypot(dx, dy) > t
linearDistanceExceeds(a, b, t) == linearDistance2DSq(a, b) > t * t

\* |yaw(a) - yaw(b)| wrapped into [0, pi]
angularDistanceYaw(a, b) ==
  LET d == Abs(a.q - b.q) % 4
  IN  (IF d > 2 THEN 4 - d ELSE d) * QuarterTurn

Cos(q) == CASE q % 4 = 0 -> 1 [] q % 4 = 1 -> 0 [] q % 4 = 2 -> -1 [] OTHER -> 0
Sin(q) == CASE q % 4 = 0 -> 0 [] q % 4 = 1 -> 1 [] q % 4 = 2 -> 0 [] OTHER -> -1

\* ------------------------------------------------------- ReplanningGuard
\* The process-wide replanning coordinator: the flag is the variable
\* replanning_flag; TRUE means that a global replan is owed.
replanningFlag(flag)    == flag      \* isOwed()
clear(flag)             == FALSE     \* clear(): resets the flag
requestReplanning(flag) == TRUE      \* requestReplanning(): sets the flag

\* -------------------------------------------------- LinearMotionPlanner
\* reset(waypoints, start): a new trajectory that starts at `start'.
MotionPlannerReset(waypoints, stamp) ==
  [waypoints |-> waypoints, start |-> stamp]

\* update(waypoints, start): new waypoints, timing and progress kept.
MotionPlannerUpdate(mp, waypoints, stamp) ==
  [waypoints |-> waypoints, start |-> mp.start]

\* computeReference(time): one waypoint per time unit from the start of the
\* trajectory, clamped to the final waypoint; the reference twist is the
\* displacement to the next waypoint.  Without waypoints the outputs keep
\* their default-constructed value.
computeReference(mp, stamp) ==
  LET n == Len(mp.waypoints)
      e == IF stamp > mp.start THEN stamp - mp.start ELSE 0
      i == IF e + 1 > n THEN n ELSE e + 1
  IN  IF n = 0
        THEN [pose |-> ZeroPose, twist |-> ZeroTwist]
        ELSE [pose  |-> mp.waypoints[i],
              twist |-> IF i < n
                          THEN Twist(mp.waypoints[i+1].x - mp.waypoints[i].x,
                                     mp.waypoints[i+1].y - mp.waypoints[i].y,
                                     1,
                                     mp.waypoints[i+1].q - mp.waypoints[i].q)
                          ELSE ZeroTwist]

\* --------------------------------------------------------- ControllerPID
NoAccum == [ix |-> 0, iy |-> 0, ia |-> 0]

\* reset(time): clears the accumulators.
ControllerReset(stamp) == NoAccum

\* The accumulators after computeCommand: the integral of the pose error.
ControllerAccumulate(acc, pose, ref_pose) ==
  [ix |-> acc.ix + (ref_pose.x - pose.x),
   iy |-> acc.iy + (ref_pose.y - pose.y),
   ia |-> acc.ia + (ref_pose.q - pose.q)]

\* computeCommand: proportional and integral feedback on the pose error plus
\* the twist error, in the control frame.
computeCommand(acc, pose, ref_pose, twist, ref_twist) ==
  LET a == ControllerAccumulate(acc, pose, ref_pose)
  IN  Twist((ref_pose.x - pose.x) + a.ix + (ref_twist.lx - twist.lx),
            (ref_pose.y - pose.y) + a.iy + (ref_twist.ly - twist.ly),
            1,
            (ref_pose.q - pose.q) + a.ia + (ref_twist.az - twist.az))

AccumInBounds(a) == Abs(a.ix) + Abs(a.iy) + Abs(a.ia) <= MaxAccum

\* ------------------------------------------- frame shaper, velocity limiter
\* twistToGlobalFrame, as written: the second row uses s twice.
twistToGlobalFrame(yaw, robot_tw) ==
  LET c == Cos(yaw)
      s == Sin(yaw)
  IN  Twist(c * robot_tw.lx - s * robot_tw.ly,
            s * robot_tw.lx + s * robot_tw.ly,
            robot_tw.dsq,
            robot_tw.az)

twistToRobotFrame(yaw, map_tw) ==
  LET c == Cos(4 - (yaw % 4))
      s == Sin(4 - (yaw % 4))
  IN  Twist(c * map_tw.lx - s * map_tw.ly,
            s * map_tw.lx + c * map_tw.ly,
            map_tw.dsq,
            map_tw.az)

\* A faulty variant: the linear part is rescaled from the limit on, the limit included.
safeVelocityCommands_ClampAtLimit(p, tw) ==
  LET magsq   == tw.lx * tw.lx + tw.ly * tw.ly
      clampL  == magsq >= p.max_safe_lin_velocity * p.max_safe_lin_velocity
      clampA  == Abs(tw.az) > p.max_safe_ang_velocity
  IN  Twist(IF clampL THEN p.max_safe_lin_velocity * tw.lx ELSE tw.lx,
            IF clampL THEN p.max_safe_lin_velocity * tw.ly ELSE tw.ly,
            IF clampL THEN magsq ELSE tw.dsq,
            IF clampA
              THEN (IF tw.az < 0 THEN 0 - p.max_safe_ang_velocity
                                 ELSE p.max_safe_ang_velocity)
              ELSE tw.az)

\* A faulty variant: the clamped angular velocity loses its sign.
safeVelocityCommands_NoCopysign(p, tw) ==
  LET magsq   == tw.lx * tw.lx + tw.ly * tw.ly
      clampL  == magsq > p.max_safe_lin_velocity * p.max_safe_lin_velocity
      clampA  == Abs(tw.az) > p.max_safe_ang_velocity
  IN  Twist(IF clampL THEN p.max_safe_lin_velocity * tw.lx ELSE tw.lx,
            IF clampL THEN p.max_safe_lin_velocity * tw.ly ELSE tw.ly,
            IF clampL THEN magsq ELSE tw.dsq,
            IF clampA THEN p.max_safe_ang_velocity ELSE tw.az)

\* safeVelocityCommands of a twist with integer components (dsq = 1): the
\* clamped linear part is max * (lx, ly) / hypot(lx, ly), kept exact as the
\* numerators and the square of the denominator.
safeVelocityCommands(p, tw) ==
  LET magsq   == tw.lx * tw.lx + tw.ly * tw.ly
      clampL  == magsq > p.max_safe_lin_velocity * p.max_safe_lin_velocity
      clampA  == Abs(tw.az) > p.max_safe_ang_velocity
  IN  Twist(IF clampL THEN p.max_safe_lin_velocity * tw.lx ELSE tw.lx,
            IF clampL THEN p.max_safe_lin_velocity * tw.ly ELSE tw.ly,
            IF clampL THEN magsq ELSE tw.dsq,
            IF clampA
              THEN (IF tw.az < 0 THEN 0 - p.max_safe_ang_velocity
                                 ELSE p.max_safe_ang_velocity)
              ELSE tw.az)

\* ---------------------------------------------------------- LocalPlanner
\* What an operation hands back: its name, its return value, the caller's
\* command twist when it returns, the topics it published on and the calls
\* it made to the controller and the motion planner.  The callbacks return
\* nothing and are logged alike.
Log(op, ret, cmd, pub, calls) ==
  [op |-> op, ret |-> ret, cmd |-> cmd, pub |-> pub, calls |-> calls]

CallbackLog == Log("callback", TRUE, ZeroTwist, {}, {})

\* odomCallback has caught a transform exception and reported it.
TransformFailureLog == Log("odomCallback", FALSE, ZeroTwist, {}, {})

\* A faulty variant: the veto needs every observer to be unsafe.
safetyVeto_AllObservers(unsafe) == unsafe = Observers

\* The loop over safety_observers_: some observer is not safe().
safetyVeto(unsafe) == unsafe # {}

\* A faulty variant: the deviation check forgets the heading.
tooFar_LinearOnly(p, pose, ref_pose) ==
  linearDistanceExceeds(pose, ref_pose, p.max_safe_lin_displacement)

\* The deviation check of computeVelocityCommands.
tooFar(p, pose, ref_pose) ==
  \/ linearDistanceExceeds(pose, ref_pose, p.max_safe_lin_displacement)
  \/ angularDistanceYaw(pose, ref_pose) > p.max_safe_ang_displacement

\* A faulty variant: the tolerance check forgets the heading.
withinTolerance_LinearOnly(p, pose, goal) ==
  ~linearDistanceExceeds(pose, goal, p.goal_lin_tolerance)

\* A faulty variant: the tolerance check excludes the boundaries.
withinTolerance_Strict(p, pose, goal) ==
  /\ linearDistance2DSq(pose, goal) < p.goal_lin_tolerance * p.goal_lin_tolerance
  /\ angularDistanceYaw(pose, goal) < p.goal_ang_tolerance

\* The tolerance check of isGoalReached.
withinTolerance(p, pose, goal) ==
  /\ ~linearDistanceExceeds(pose, goal, p.goal_lin_tolerance)
  /\ angularDistanceYaw(pose, goal) <= p.goal_ang_tolerance

\* A faulty variant: without a goal no waypoint counts as a new goal.
newGoal_NeverFromIdle(goal, pose) ==
  IF goal = NoGoal
    THEN FALSE
    ELSE \/ linearDistanceExceeds(goal, pose, Eps)
         \/ angularDistanceYaw(goal, pose) > Eps

\* A faulty variant: a terminal waypoint at exactly 1e-8 counts as a new goal.
newGoal_AtLeastEps(goal, pose) ==
  IF goal = NoGoal
    THEN TRUE
    ELSE \/ linearDistance2DSq(goal, pose) >= Eps * Eps
         \/ angularDistanceYaw(goal, pose) >= Eps

newGoal(goal, pose) ==
  IF goal = NoGoal
    THEN TRUE
    ELSE LET new_position    == linearDistanceExceeds(goal, pose, Eps)
             new_orientation == angularDistanceYaw(goal, pose) > Eps
         IN  new_position \/ new_orientation

\* A faulty variant: the deviation check runs before the safety observers are asked.
tickBranch_DeviationFirst(unsafe, p, pose, ref_pose) ==
  IF tooFar(p, pose, ref_pose) THEN "deviation"
  ELSE IF safetyVeto(unsafe) THEN "veto"
  ELSE "command"

\* The branch computeVelocityCommands takes.
tickBranch(unsafe, p, pose, ref_pose) ==
  IF safetyVeto(unsafe) THEN "veto"
  ELSE IF tooFar(p, pose, ref_pose) THEN "deviation"
  ELSE "command"

\* The replanning flag after the deviation branch.
deviationFlag(flag, enabled) == IF enabled THEN clear(flag) ELSE flag

\* The caller's twist after the deviation branch: not written.
deviationCommand(cmd_in) == cmd_in

\* computeVelocityCommands(cmd): `cmd_in' is the caller's twist on entry,
\* `unsafe' the safety observers whose safe() answers false during this
\* call, `enabled' what the replanning guard's enabled() answers.
computeVelocityCommands(cmd_in, unsafe, enabled) ==
  LET stamp == robot_pose.stamp
      ref   == computeReference(motion_planner, stamp)
      acc   == ControllerAccumulate(controller, robot_pose.pose, ref.pose)
      map_cmd   == computeCommand(controller, robot_pose.pose, ref.pose,
                                  robot_twist, ref.twist)
      robot_cmd == twistToRobotFrame(robot_pose.pose.q, map_cmd)
      branch    == tickBranch(unsafe, params, robot_pose.pose, ref.pose)
  IN  CASE branch = "veto" ->
             /\ last' = Log("computeVelocityCommands", TRUE, ZeroTwist,
                            {}, {})
             /\ UNCHANGED <<current_goal, replanning_flag, robot_pose,
                            robot_twist, params, motion_planner, controller>>
        [] branch = "deviation" ->
             /\ current_goal' = NoGoal
             /\ replanning_flag' = deviationFlag(replanning_flag, enabled)
             /\ last' = Log("computeVelocityCommands", FALSE,
                            deviationCommand(cmd_in), {"reference_pose"},
                            {"computeReference"})
             /\ UNCHANGED <<robot_pose, robot_twist, params, motion_planner,
                            controller>>
        [] branch = "command" ->
             /\ AccumInBounds(acc)
             /\ controller' = acc
             /\ last' = Log("computeVelocityCommands", TRUE,
                            safeVelocityCommands(params, robot_cmd),
                            {"reference_pose", "cmd_navigation"},
                            {"computeReference", "computeCommand"})
             /\ UNCHANGED <<current_goal, replanning_flag, robot_pose,
                            robot_twist, params, motion_planner>>

\* The branch isGoalReached takes.
reachedBranch(goal, p, pose) ==
  IF goal = NoGoal THEN "idle"
  ELSE IF withinTolerance(p, pose, goal) THEN "reached"
  ELSE "not_reached"

\* A faulty variant: reaching the goal leaves the replanning flag alone.
reachedFlag_Kept(flag) == flag

\* The replanning flag after the goal is reached.
reachedFlag(flag) == clear(flag)

isGoalReached ==
  LET branch == reachedBranch(current_goal, params, robot_pose.pose)
  IN  IF branch = "reached"
        THEN /\ current_goal' = NoGoal
             /\ replanning_flag' = reachedFlag(replanning_flag)
             /\ last' = Log("isGoalReached", TRUE, ZeroTwist, {}, {})
             /\ UNCHANGED <<robot_pose, robot_twist, params, motion_planner,
                            controller>>
        ELSE /\ last' = Log("isGoalReached", FALSE, ZeroTwist, {}, {})
             /\ UNCHANGED <<current_goal, replanning_flag, robot_pose,
                            robot_twist, params, motion_planner, controller>>

back(waypoints) == waypoints[Len(waypoints)]

\* A faulty variant: the replanning flag is tested before the plan's emptiness.
planBranch_FlagFirst(waypoints, flag, goal) ==
  IF ~replanningFlag(flag) THEN "ignored"
  ELSE IF waypoints = <<>> THEN "empty"
  ELSE IF newGoal(goal, back(waypoints)) THEN "new_goal"
  ELSE "update"

\* A faulty variant: a plan is accepted whether or not replanning is owed.
planBranch_NeverIgnored(waypoints, flag, goal) ==
  IF waypoints = <<>> THEN "empty"
  ELSE IF newGoal(goal, back(waypoints)) THEN "new_goal"
  ELSE "update"

\* The branch setPlan takes.
planBranch(waypoints, flag, goal) ==
  IF waypoints = <<>> THEN "empty"
  ELSE IF ~replanningFlag(flag) THEN "ignored"
  ELSE IF newGoal(goal, back(waypoints)) THEN "new_goal"
  ELSE "update"

setPlan(waypoints) ==
  LET stamp  == robot_pose.stamp
      branch == planBranch(waypoints, replanning_flag, current_goal)
  IN  CASE branch = "empty" ->
             /\ last' = Log("setPlan", FALSE, ZeroTwist, {}, {})
             /\ UNCHANGED <<current_goal, replanning_flag, robot_pose,
                            robot_twist, params, motion_planner, controller>>
        [] branch = "ignored" ->
             /\ last' = Log("setPlan", TRUE, ZeroTwist, {}, {})
             /\ UNCHANGED <<current_goal, replanning_flag, robot_pose,
                            robot_twist, params, motion_planner, controller>>
        [] branch = "new_goal" ->
             /\ current_goal' = back(waypoints)
             /\ controller' = ControllerReset(stamp)
             /\ motion_planner' = MotionPlannerReset(waypoints, stamp)
             /\ last' = Log("setPlan", TRUE, ZeroTwist, {"trajectory"},
                            {"controller.reset", "motion_planner.reset"})
             /\ UNCHANGED <<replanning_flag, robot_pose, robot_twist, params>>
        [] branch = "update" ->
             /\ motion_planner' =
                  MotionPlannerUpdate(motion_planner, waypoints, stamp)
             /\ last' = Log("setPlan", TRUE, ZeroTwist, {"trajectory"},
                            {"motion_planner.update"})
             /\ UNCHANGED <<current_goal, replanning_flag, robot_pose,
                            robot_twist, params, controller>>

\* A faulty variant: the twist of the message is stored although the pose transform failed.
caughtTwist_Stored(old_twist, odom_twist) == odom_twist

\* The stored twist after the catch block: twistToGlobalFrame, the statement
\* after transformPose in the try block, has not run.
caughtTwist(old_twist, odom_twist) == old_twist

\* odomCallback(odom): `tf_pose' is the odometry pose in the map frame as
\* transformPose resolves it; `available' is FALSE when the transform
\* cannot be resolved and the exception is caught.
odomCallback(tf_pose, stamp, odom_twist, available) ==
  /\ IF available
       THEN /\ robot_pose' = [pose |-> tf_pose, stamp |-> stamp]
            /\ robot_twist' = twistToGlobalFrame(tf_pose.q, odom_twist)
       ELSE /\ robot_pose' = robot_pose
            /\ robot_twist' = caughtTwist(robot_twist, odom_twist)
  /\ last' = IF available THEN CallbackLog ELSE TransformFailureLog
  /\ UNCHANGED <<current_goal, replanning_flag, params, motion_planner,
                 controller>>

reconfigureCallback(config) ==
  /\ params' = config
  /\ last' = CallbackLog
  /\ UNCHANGED <<current_goal, replanning_flag, robot_pose, robot_twist,
                 motion_planner, controller>>

\* The global planner, the other owner of the replanning flag, requests a
\* replan.
plannerRequestsReplanning ==
  /\ replanning_flag' = requestReplanning(replanning_flag)
  /\ last' = CallbackLog
  /\ UNCHANGED <<current_goal, robot_pose, robot_twist, params,
                 motion_planner, controller>>

\* The state after initialize(): no goal, no trajectory, default-constructed
\* pose and twist, the configuration the parameter server delivers.
Init ==
  /\ current_goal = NoGoal
  /\ replanning_flag \in BOOLEAN
  /\ robot_pose = [pose |-> ZeroPose, stamp |-> 0]
  /\ robot_twist = ZeroTwist
  /\ params \in Configs
  /\ motion_planner = [waypoints |-> <<>>, start |-> 0]
  /\ controller = NoAccum
  /\ last = Log("initialize", TRUE, ZeroTwist, {}, {})
  /\ ThreadsIdle
  /\ FilterIdle

Tick ==
  /\ \E cmd_in \in CmdInputs, unsafe \in SUBSET Observers,
        enabled \in BOOLEAN :
       computeVelocityCommands(cmd_in, unsafe, enabled)
  /\ UNCHANGED <<threads, filter>>
Reached ==
  /\ isGoalReached
  /\ UNCHANGED <<threads, filter>>
Plan ==
  /\ \E waypoints \in WaypointSeqs : setPlan(waypoints)
  /\ UNCHANGED <<threads, filter>>
Odom ==
  /\ \E tf_pose \in Poses, stamp \in robot_pose.stamp..MaxTime,
        odom_twist \in OdomTwists :
       odomCallback(tf_pose, stamp, odom_twist, TRUE)
  /\ UNCHANGED <<threads, filter>>
OdomFail ==
  /\ \E odom_twist \in OdomTwists :
       odomCallback(robot_pose.pose, robot_pose.stamp, odom_twist, FALSE)
  /\ UNCHANGED <<threads, filter>>
Reconf ==
  /\ \E config \in Configs : reconfigureCallback(config)
  /\ UNCHANGED <<threads, filter>>
Replan ==
  /\ plannerRequestsReplanning
  /\ UNCHANGED <<threads, filter>>

Next == Tick \/ Reached \/ Plan \/ Odom \/ OdomFail \/ Reconf \/ Replan

Spec == Init /\ [][Next]_vars

\* ------------------------------------------------------------ properties
TickName == "computeVelocityCommands"

\* The reference pose a tick started now would compute.
RefPose == computeReference(motion_planner, robot_pose.stamp).pose

\* The actual pose deviates from the reference beyond a displacement
\* threshold.
LinearDeviation ==
  linearDistance2DSq(robot_pose.pose, RefPose)
    > params.max_safe_lin_displacement * params.max_safe_lin_displacement
AngularDeviation ==
  angularDistanceYaw(robot_pose.pose, RefPose)
    > params.max_safe_ang_displacement
Deviation == LinearDeviation \/ AngularDeviation

\* The pose is within a tolerance of the goal, boundaries included.
LinearWithin ==
  linearDistance2DSq(robot_pose.pose, current_goal)
    <= params.goal_lin_tolerance * params.goal_lin_tolerance
AngularWithin ==
  angularDistanceYaw(robot_pose.pose, current_goal)
    <= params.goal_ang_tolerance

ControllerState == <<current_goal, replanning_flag, robot_pose, robot_twist,
                     motion_planner, controller>>

\* C1: if some safety observer reports unsafe when computeVelocityCommands
\* runs, the call writes the zero twist and returns true, whatever the
\* poses, the goal and the replanning flag are; the deviation check does not
\* decide such a tick.
C1_VetoYieldsZeroTwist ==
  [][last'.op = TickName =>
      \A cmd_in \in CmdInputs, unsafe \in SUBSET Observers, enabled \in BOOLEAN :
       (unsafe # {} /\ computeVelocityCommands(cmd_in, unsafe, enabled))
         => (last'.ret = TRUE /\ last'.cmd = ZeroTwist)]_vars

\* A vetoed tick has returned although the pose deviates from the reference.
C1_Witness ==
  /\ last = Log(TickName, TRUE, ZeroTwist, {}, {})
  /\ Deviation

\* C2: a vetoed tick leaves the goal, the replanning flag, the stored pose
\* and twist, the trajectory and the controller's accumulators unchanged,
\* also when the pose deviates beyond the displacement thresholds.
C2_VetoLeavesStateUnchanged ==
  [][last'.op = TickName =>
      \A cmd_in \in CmdInputs, unsafe \in SUBSET Observers, enabled \in BOOLEAN :
       (unsafe # {} /\ computeVelocityCommands(cmd_in, unsafe, enabled))
         => UNCHANGED <<ControllerState, params>>]_vars

\* A vetoed tick has returned with a goal set, replanning owed, accumulated
\* error in the controller and a pose that deviates from the reference.
C2_Witness ==
  /\ last = Log(TickName, TRUE, ZeroTwist, {}, {})
  /\ Deviation
  /\ current_goal # NoGoal
  /\ replanning_flag
  /\ controller # NoAccum

\* C3: a tick that is not vetoed and finds the pose deviating beyond a
\* displacement threshold returns false, leaves no goal and leaves the
\* replanning flag owed, whatever the flag was.
C3_DeviationRequestsReplanning ==
  [][(last'.op = TickName /\ Deviation) =>
      \A cmd_in \in CmdInputs, enabled \in BOOLEAN :
       computeVelocityCommands(cmd_in, {}, enabled)
         => /\ last'.ret = FALSE
            /\ current_goal' = NoGoal
            /\ replanning_flag' = TRUE]_vars

\* C4: a tick that fails on deviation issues no command: the caller's twist
\* is as on entry, computeCommand is not called, the accumulators are
\* unchanged and nothing is published on the command topic.
C4_DeviationIssuesNoCommand ==
  [][(last'.op = TickName /\ Deviation) =>
      \A cmd_in \in CmdInputs, enabled \in BOOLEAN :
       computeVelocityCommands(cmd_in, {}, enabled)
         => /\ last'.ret = FALSE
            /\ last'.cmd = cmd_in
            /\ "computeCommand" \notin last'.calls
            /\ controller' = controller
            /\ "cmd_navigation" \notin last'.pub]_vars

\* A tick has failed on a heading deviation alone, with the caller's twist
\* still what it was and accumulated error in the controller.
C4_Witness ==
  /\ last.op = TickName
  /\ last.ret = FALSE
  /\ last.cmd = StaleTwist
  /\ AngularDeviation /\ ~LinearDeviation
  /\ controller # NoAccum

\* C5: with a goal set and the pose within both tolerances (boundaries
\* included) isGoalReached returns true and leaves no goal; without a goal
\* it returns false; and a goal appears again only through setPlan.  So it
\* returns true once per goal, whatever pose updates and ticks interleave.
C5_GoalReachedExactlyOnce ==
  [][/\ isGoalReached =>
          /\ (current_goal # NoGoal /\ LinearWithin /\ AngularWithin)
               => (last'.ret = TRUE /\ current_goal' = NoGoal)
          /\ current_goal = NoGoal => last'.ret = FALSE
     /\ (current_goal = NoGoal /\ current_goal' # NoGoal)
          => \E waypoints \in WaypointSeqs : setPlan(waypoints)]_vars

\* isGoalReached has returned true with the pose on the boundary of the
\* linear tolerance of the goal, the terminal waypoint of the trajectory.
C5_Witness ==
  /\ last = Log("isGoalReached", TRUE, ZeroTwist, {}, {})
  /\ current_goal = NoGoal
  /\ motion_planner.waypoints # <<>>
  /\ params.goal_lin_tolerance = 1
  /\ linearDistance2DSq(robot_pose.pose, back(motion_planner.waypoints)) = 1

\* C6: whenever isGoalReached returns true, no goal is left and the
\* replanning flag is not owed, whatever the flag was.
C6_GoalReachedLeavesIdle ==
  [][(isGoalReached /\ last'.ret = TRUE)
       => (current_goal' = NoGoal /\ replanning_flag' = FALSE)]_vars

\* isGoalReached has returned true under zero tolerances.
C6_Witness ==
  /\ last = Log("isGoalReached", TRUE, ZeroTwist, {}, {})
  /\ current_goal = NoGoal
  /\ ~replanning_flag
  /\ params.goal_lin_tolerance = 0

\* C7: without a goal, or with the pose outside the linear or the angular
\* tolerance of the goal, isGoalReached returns false and changes nothing.
C7_NotReachedChangesNothing ==
  [][(isGoalReached
        /\ (current_goal = NoGoal \/ ~LinearWithin \/ ~AngularWithin))
       => (last'.ret = FALSE /\ UNCHANGED <<ControllerState, params>>)]_vars

\* isGoalReached has returned false with a goal whose position the pose has
\* reached but whose heading it has not.
C7_Witness ==
  /\ last = Log("isGoalReached", FALSE, ZeroTwist, {}, {})
  /\ current_goal # NoGoal
  /\ LinearWithin
  /\ ~AngularWithin

\* C8: setPlan with no waypoints returns false and leaves the goal, the
\* trajectory, the controller and the replanning flag unchanged, in every
\* state.
C8_EmptyPlanFails ==
  [][setPlan(<<>>)
       => (last'.ret = FALSE /\ UNCHANGED <<ControllerState, params>>)]_vars

\* setPlan has returned false while replanning is owed and a goal is set.
C8_Witness ==
  /\ last = Log("setPlan", FALSE, ZeroTwist, {}, {})
  /\ replanning_flag
  /\ current_goal # NoGoal

\* C9: setPlan with waypoints while no replanning is owed returns true and
\* changes nothing, whatever the terminal waypoint and the goal are.
C9_LatePlanIgnored ==
  [][(last'.op = "setPlan" /\ ~replanning_flag) =>
      \A waypoints \in WaypointSeqs :
       (waypoints # <<>> /\ setPlan(waypoints))
         => (last'.ret = TRUE /\ UNCHANGED <<ControllerState, params>>)]_vars

\* setPlan has returned true without a call or a publication, and no goal is
\* set.
C9_Witness ==
  /\ last = Log("setPlan", TRUE, ZeroTwist, {}, {})
  /\ ~replanning_flag
  /\ current_goal = NoGoal

\* The terminal waypoint differs from the goal by more than 1e-8 in position
\* or in heading; a goal that is not set differs from every waypoint.
Differs(goal, pose) ==
  \/ goal = NoGoal
  \/ linearDistance2DSq(goal, pose) > Eps * Eps
  \/ angularDistanceYaw(goal, pose) > Eps

\* C10: setPlan with waypoints while replanning is owed replaces the goal
\* and resets the controller and the motion planner exactly when the
\* terminal waypoint differs from the goal by more than 1e-8 in position or
\* heading; otherwise it only calls the motion planner's update.
C10_GoalReplacedIffDiffers ==
  [][(last'.op = "setPlan" /\ replanning_flag) =>
      \A waypoints \in WaypointSeqs :
       (waypoints # <<>> /\ setPlan(waypoints))
         => IF Differs(current_goal, back(waypoints))
              THEN /\ current_goal' = back(waypoints)
                   /\ last'.calls = {"controller.reset",
                                     "motion_planner.reset"}
                   /\ controller' = NoAccum
                   /\ motion_planner' = [waypoints |-> waypoints,
                                         start |-> robot_pose.stamp]
              ELSE /\ last'.calls = {"motion_planner.update"}
                   /\ current_goal' = current_goal
                   /\ controller' = controller
                   /\ motion_planner'.waypoints = waypoints
                   /\ motion_planner'.start = motion_planner.start]_vars

\* The motion planner has been updated with a plan whose terminal waypoint
\* is exactly 1e-8 away from the goal, which stays.
C10_Witness ==
  /\ last.op = "setPlan"
  /\ last.calls = {"motion_planner.update"}
  /\ current_goal # NoGoal
  /\ linearDistance2DSq(current_goal, back(motion_planner.waypoints)) = Eps * Eps

\* C11: a setPlan call that installs a new goal leaves the replanning flag
\* not owed, so that a further setPlan with waypoints right after it is
\* ignored as a late replan.
C11_NewGoalClearsFlag ==
  [][(last'.op = "setPlan" /\ "controller.reset" \in last'.calls)
       => /\ replanning_flag' = FALSE
          /\ \A waypoints \in WaypointSeqs :
               waypoints # <<>>
                 => planBranch(waypoints, replanning_flag', current_goal')
                      = "ignored"]_vars

\* C12: the setPlan call that follows a tick failed on deviation, with
\* waypoints, is accepted as a new goal: it resets the controller and the
\* motion planner and installs the terminal waypoint as the goal.
C12_RecoveryAfterDeviation ==
  [][(last.op = TickName /\ last.ret = FALSE /\ last'.op = "setPlan") =>
      \A waypoints \in WaypointSeqs :
       (waypoints # <<>> /\ setPlan(waypoints))
         => /\ last'.ret = TRUE
            /\ current_goal' = back(waypoints)
            /\ last'.calls = {"controller.reset", "motion_planner.reset"}
            /\ controller' = NoAccum
            /\ motion_planner' = [waypoints |-> waypoints,
                                  start |-> robot_pose.stamp]]_vars

\* ------------------------------------------------------ velocity limiter
\* safeVelocityCommands and the tick that calls it, over the velocity limits
\* a configuration can hold.  Velocities are in units of 0.1 (m/s, rad/s).
ShaperVels == (0 - MaxVel)..MaxVel

\* The scenario of the specification: linear (1.2, 0.0).
ScenarioTwist == Twist(12, 0, 1, 0)

ShaperTwists ==
  {Twist(lx, ly, 1, az) : lx \in ShaperVels, ly \in ShaperVels,
                          az \in ShaperVels} \cup {ScenarioTwist}

\* Configurations that differ in the velocity limits only; the last one
\* holds the limits of defaultParams.
LimiterConfigs ==
  { [goal_lin_tolerance |-> 0, goal_ang_tolerance |-> 0,
     max_safe_lin_velocity |-> l, max_safe_ang_velocity |-> a,
     max_safe_lin_displacement |-> 1,
     max_safe_ang_displacement |-> QuarterTurn] :
       l \in 0..MaxLimit, a \in 0..MaxLimit }
  \cup
  { [goal_lin_tolerance |-> 0, goal_ang_tolerance |-> 0,
     max_safe_lin_velocity |-> DefaultMaxLinVelocity,
     max_safe_ang_velocity |-> DefaultMaxAngVelocity,
     max_safe_lin_displacement |-> 1,
     max_safe_ang_displacement |-> QuarterTurn] }

\* Odometry twists of a robot that drives and turns forward or backward at
\* the largest velocity.
LimiterOdomTwists == { Twist(v, 0, 1, v) : v \in {0 - MaxVel, MaxVel} }

\* What a call of a shaper function hands back: its argument and its result.
ShaperLog(op, arg, out) ==
  [op |-> op, arg |-> arg, ret |-> TRUE, cmd |-> out, pub |-> {},
   calls |-> {}]


\* A call of safeVelocityCommands(twist, &safe_twist) under the current
\* parameters.
safeVelocityCommandsCall(tw) ==
  /\ last' = ShaperLog("safeVelocityCommands", tw,
                       safeVelocityCommands(params, tw))
  /\ UNCHANGED <<current_goal, replanning_flag, robot_pose, robot_twist,
                 params, motion_planner, controller>>

LimiterInit ==
  /\ current_goal = NoGoal
  /\ replanning_flag = FALSE
  /\ robot_pose = [pose |-> ZeroPose, stamp |-> 0]
  /\ robot_twist = ZeroTwist
  /\ params \in LimiterConfigs
  /\ motion_planner = [waypoints |-> <<>>, start |-> 0]
  /\ controller = NoAccum
  /\ last = Log("initialize", TRUE, ZeroTwist, {}, {})
  /\ ThreadsIdle
  /\ FilterIdle

LimiterCall ==
  /\ \E tw \in ShaperTwists : safeVelocityCommandsCall(tw)
  /\ UNCHANGED <<threads, filter>>
LimiterTick ==
  /\ \E cmd_in \in CmdInputs, unsafe \in SUBSET Observers :
       computeVelocityCommands(cmd_in, unsafe, TRUE)
  /\ UNCHANGED <<threads, filter>>
LimiterOdom ==
  /\ \E odom_twist \in LimiterOdomTwists :
       odomCallback(ZeroPose, 0, odom_twist, TRUE)
  /\ UNCHANGED <<threads, filter>>
LimiterReconf ==
  /\ \E config \in LimiterConfigs : reconfigureCallback(config)
  /\ UNCHANGED <<threads, filter>>

LimiterNext == LimiterCall \/ LimiterTick \/ LimiterOdom \/ LimiterReconf

LimiterSpec == LimiterInit /\ [][LimiterNext]_vars

\* The linear part of a twist has magnitude at most `max'.
LinearWithinLimit(tw, max) ==
  /\ tw.dsq > 0
  /\ tw.lx * tw.lx + tw.ly * tw.ly <= max * max * tw.dsq

\* The linear part of `out' is that of `tw' rescaled to magnitude `max'.
RescaledTo(out, tw, max) ==
  /\ out.dsq > 0
  /\ out.lx * out.lx + out.ly * out.ly = max * max * out.dsq
  /\ out.lx * tw.ly - out.ly * tw.lx = 0
  /\ out.lx * tw.lx + out.ly * tw.ly >= 0

Sign(n) == IF n < 0 THEN -1 ELSE IF n > 0 THEN 1 ELSE 0

\* What safeVelocityCommands owes for argument `tw', result `out' and
\* limits `p'.
Shaped(p, tw, out) ==
  LET maxl  == p.max_safe_lin_velocity
      maxa  == p.max_safe_ang_velocity
      inL   == tw.lx * tw.lx + tw.ly * tw.ly <= maxl * maxl * tw.dsq
      inA   == Abs(tw.az) <= maxa
  IN  /\ LinearWithinLimit(out, maxl)
      /\ Abs(out.az) <= maxa
      /\ IF inL THEN <<out.lx, out.ly, out.dsq>> = <<tw.lx, tw.ly, tw.dsq>>
                ELSE RescaledTo(out, tw, maxl)
      /\ IF inA THEN out.az = tw.az
                ELSE Abs(out.az) = maxa /\ Sign(out.az) * Sign(tw.az) >= 0
      /\ (tw = ScenarioTwist /\ maxl = DefaultMaxLinVelocity)
           => /\ out.lx > 0
              /\ out.lx * out.lx = DefaultMaxLinVelocity
                                     * DefaultMaxLinVelocity * out.dsq
              /\ out.ly = 0

\* C13: the result of safeVelocityCommands is within both limits; an
\* argument within a limit comes back unchanged in that part; a clamped
\* linear part keeps its direction and has the magnitude of the limit, a
\* clamped angular part keeps its sign; linear (1.2, 0.0) under the limit
\* 0.5 becomes exactly (0.5, 0.0).  So the command of every tick that
\* issues one is within both limits.
C13_CommandWithinLimits ==
  [][/\ last'.op = "safeVelocityCommands"
          => Shaped(params, last'.arg, last'.cmd)
     /\ (last'.op = TickName /\ "cmd_navigation" \in last'.pub)
          => /\ LinearWithinLimit(last'.cmd, params.max_safe_lin_velocity)
             /\ Abs(last'.cmd.az) <= params.max_safe_ang_velocity]_vars

\* safeVelocityCommands has clamped both parts of a twist that points along
\* neither axis; the clamped linear part has an irrational magnitude's
\* direction (-1, 2) / sqrt(5).
C13_Witness ==
  /\ last.op = "safeVelocityCommands"
  /\ last.arg = Twist(-1, 2, 1, -2)
  /\ last.cmd = Twist(-1, 2, 5, -1)
  /\ params.max_safe_lin_velocity = 1
  /\ params.max_safe_ang_velocity = 1

FrameQuarters == 0..3

FramePoses == [x : {0}, y : {0}, q : FrameQuarters]

\* A call of twistToGlobalFrame(robot_twist, &map_twist); the heading is
\* that of robot_pose_.
twistToGlobalFrameCall(tw) ==
  /\ last' = ShaperLog("twistToGlobalFrame", tw,
                       twistToGlobalFrame(robot_pose.pose.q, tw))
  /\ UNCHANGED <<current_goal, replanning_flag, robot_pose, robot_twist,
                 params, motion_planner, controller>>

\* A call of twistToRobotFrame(map_twist, &robot_twist).
twistToRobotFrameCall(tw) ==
  /\ last' = ShaperLog("twistToRobotFrame", tw,
                       twistToRobotFrame(robot_pose.pose.q, tw))
  /\ UNCHANGED <<current_goal, replanning_flag, robot_pose, robot_twist,
                 params, motion_planner, controller>>

FrameInit ==
  /\ current_goal = NoGoal
  /\ replanning_flag = FALSE
  /\ robot_pose = [pose |-> ZeroPose, stamp |-> 0]
  /\ robot_twist = ZeroTwist
  /\ params \in Configs
  /\ motion_planner = [waypoints |-> <<>>, start |-> 0]
  /\ controller = NoAccum
  /\ last = Log("initialize", TRUE, ZeroTwist, {}, {})
  /\ ThreadsIdle
  /\ FilterIdle

FrameToGlobal ==
  /\ \E tw \in ShaperTwists : twistToGlobalFrameCall(tw)
  /\ UNCHANGED <<threads, filter>>
FrameToRobot ==
  /\ \E tw \in ShaperTwists : twistToRobotFrameCall(tw)
  /\ UNCHANGED <<threads, filter>>
FrameOdom ==
  /\ \E tf_pose \in FramePoses, odom_twist \in LimiterOdomTwists :
       odomCallback(tf_pose, 0, odom_twist, TRUE)
  /\ UNCHANGED <<threads, filter>>

FrameNext == FrameToGlobal \/ FrameToRobot \/ FrameOdom

FrameSpec == FrameInit /\ [][FrameNext]_vars

\* The twist `tw' with its linear part rotated by `q' quarter turns.
Rotated(q, tw) ==
  Twist(Cos(q) * tw.lx - Sin(q) * tw.ly,
        Sin(q) * tw.lx + Cos(q) * tw.ly,
        tw.dsq,
        tw.az)

SameMagnitude(a, b) ==
  (a.lx * a.lx + a.ly * a.ly) * b.dsq = (b.lx * b.lx + b.ly * b.ly) * a.dsq

\* C15: twistToGlobalFrame rotates the linear part by the heading and
\* twistToRobotFrame by its opposite; both keep the angular part and the
\* linear magnitude; converting the result back with the other function
\* returns the argument.
C15_FrameConversionIsRotation ==
  [][/\ last'.op = "twistToGlobalFrame"
          => /\ last'.cmd = Rotated(robot_pose.pose.q, last'.arg)
             /\ last'.cmd.az = last'.arg.az
             /\ SameMagnitude(last'.cmd, last'.arg)
             /\ twistToRobotFrame(robot_pose.pose.q, last'.cmd) = last'.arg
     /\ last'.op = "twistToRobotFrame"
          => /\ last'.cmd = Rotated(4 - robot_pose.pose.q, last'.arg)
             /\ last'.cmd.az = last'.arg.az
             /\ SameMagnitude(last'.cmd, last'.arg)
             /\ twistToGlobalFrame(robot_pose.pose.q, last'.cmd)
                  = last'.arg]_vars

\* C16: an odomCallback whose pose transform throws leaves the stored pose,
\* its time stamp and the stored twist as they were, and leaves the goal
\* and the replanning flag alone.
C16_FailedUpdateDropped ==
  [][last'.op = "odomCallback" =>
      \A tf_pose \in Poses, stamp \in 0..MaxTime, odom_twist \in OdomTwists :
       odomCallback(tf_pose, stamp, odom_twist, FALSE)
         => UNCHANGED <<robot_pose, robot_twist, current_goal,
                        replanning_flag>>]_vars

\* A transform failure has been caught after an update had stored a pose
\* and a twist, with a goal set and replanning owed.
C16_Witness ==
  /\ last = TransformFailureLog
  /\ robot_pose # [pose |-> ZeroPose, stamp |-> 0]
  /\ robot_twist # ZeroTwist
  /\ current_goal # NoGoal
  /\ replanning_flag

\* --------------------------------------------------------------- threads
\* The same operations statement by statement, run by two threads: the
\* host's control thread and the spinner thread.  A label names the
\* statement a thread executes next; state_mtx is held from the
\* std::unique_lock of a function to its return.

\* The odometry messages: update k carries pose, stamp and twist k.
ThreadUpdates == 1..MaxCoord

UpdatePose(k)  == [x |-> k, y |-> 0, q |-> k % (MaxQ + 1)]
UpdateTwist(k) == Twist(k, 0, 1, k)

\* RobotState as update k leaves it; update 0 is the state after
\* initialize().
UpdateState(k) ==
  [pose  |-> UpdatePose(k),
   stamp |-> k,
   twist |-> twistToGlobalFrame(UpdatePose(k).q, UpdateTwist(k))]

\* Two configurations that differ in every threshold.
ThreadConfigs ==
  { [goal_lin_tolerance |-> 0, goal_ang_tolerance |-> 0,
     max_safe_lin_velocity |-> 1, max_safe_ang_velocity |-> 1,
     max_safe_lin_displacement |-> 1,
     max_safe_ang_displacement |-> QuarterTurn],
    [goal_lin_tolerance |-> 1, goal_ang_tolerance |-> QuarterTurn,
     max_safe_lin_velocity |-> 2, max_safe_ang_velocity |-> 2,
     max_safe_lin_displacement |-> 2,
     max_safe_ang_displacement |-> 0] }

\* The fields of params_ in the order reconfigureCallback assigns them.
ConfigFields ==
  << "goal_lin_tolerance", "goal_ang_tolerance", "max_safe_lin_velocity",
     "max_safe_ang_velocity", "max_safe_lin_displacement",
     "max_safe_ang_displacement" >>

\* Plans of one waypoint, the pose of an update.
ThreadPlans == {<<>>} \cup { <<UpdatePose(k)>> : k \in ThreadUpdates }

Goto(t, label) == pc' = [pc EXCEPT ![t] = label]

\* The call of thread t returns.
Return(t) ==
  /\ pc' = [pc EXCEPT ![t] = "idle"]
  /\ frame' = [frame EXCEPT ![t] = [op |-> "none"]]

\* A faulty variant: the lock of odomCallback does not wait for the holder.
mutexAvailable_NoWait(mtx, t) == t = "spinner" \/ mtx = "free"

\* std::unique_lock<std::mutex> lock(state_mtx_) returns once no thread
\* holds the mutex.
mutexAvailable(mtx, t) == mtx = "free"

\* The frame notes every piece of RobotState and every threshold the call
\* reads.
ReadState(t, pieces) ==
  [frame[t] EXCEPT !.robot_state = @ \cup pieces]
ReadThreshold(f, field) ==
  [f EXCEPT !.thresholds = @ \cup {<<field, params[field]>>}]

PoseRead  == <<"pose", robot_pose.pose>>
StampRead == <<"stamp", robot_pose.stamp>>
TwistRead == <<"twist", robot_twist>>

\* ---- computeVelocityCommands, lines 101-144
TickCall ==
  /\ pc["host"] = "idle"
  /\ Goto("host", "t_lock")
  /\ frame' = [frame EXCEPT !["host"] =
                 [op |-> "computeVelocityCommands", cmd_in |-> StaleTwist,
                  ref |-> [pose |-> ZeroPose, twist |-> ZeroTwist],
                  cmd |-> ZeroTwist, lin_limit |-> 0,
                  robot_state |-> {}, thresholds |-> {}]]
  /\ UNCHANGED <<current_goal, replanning_flag, robot_pose, robot_twist,
                 params, motion_planner, controller, last, state_mtx>>
  /\ UNCHANGED filter

\* line 102
TickLock ==
  /\ pc["host"] = "t_lock"
  /\ mutexAvailable(state_mtx, "host")
  /\ state_mtx' = "host"
  /\ Goto("host", "t_observers")
  /\ UNCHANGED <<current_goal, replanning_flag, robot_pose, robot_twist,
                 params, motion_planner, controller, last, frame>>
  /\ UNCHANGED filter

\* lines 104-110
TickObservers(unsafe) ==
  /\ pc["host"] = "t_observers"
  /\ IF safetyVeto(unsafe)
       THEN /\ last' = Log("computeVelocityCommands", TRUE, ZeroTwist,
                           {}, {})
            /\ state_mtx' = "free"
            /\ Return("host")
       ELSE /\ Goto("host", "t_reference")
            /\ UNCHANGED <<last, state_mtx, frame>>
  /\ UNCHANGED <<current_goal, replanning_flag, robot_pose, robot_twist,
                 params, motion_planner, controller>>
  /\ UNCHANGED filter

\* lines 112-117
TickReference ==
  /\ pc["host"] = "t_reference"
  /\ frame' = [frame EXCEPT !["host"] =
                 [ReadState("host", {StampRead}) EXCEPT
                    !.ref = computeReference(motion_planner,
                                             robot_pose.stamp)]]
  /\ Goto("host", "t_publish_reference")
  /\ UNCHANGED <<current_goal, replanning_flag, robot_pose, robot_twist,
                 params, motion_planner, controller, last, state_mtx>>
  /\ UNCHANGED filter

\* line 118
TickPublishReference ==
  /\ pc["host"] = "t_publish_reference"
  /\ Goto("host", "t_lin_displacement")
  /\ UNCHANGED <<current_goal, replanning_flag, robot_pose, robot_twist,
                 params, motion_planner, controller, last, state_mtx,
                 frame>>
  /\ UNCHANGED filter

\* lines 119-120
TickLinDisplacement ==
  /\ pc["host"] = "t_lin_displacement"
  /\ frame' = [frame EXCEPT !["host"] =
                 ReadThreshold(ReadState("host", {PoseRead}),
                               "max_safe_lin_displacement")]
  /\ IF linearDistanceExceeds(robot_pose.pose, frame["host"].ref.pose,
                              params.max_safe_lin_displacement)
       THEN Goto("host", "t_too_far")
       ELSE Goto("host", "t_ang_displacement")
  /\ UNCHANGED <<current_goal, replanning_flag, robot_pose, robot_twist,
                 params, motion_planner, controller, last, state_mtx>>
  /\ UNCHANGED filter

\* lines 121-122
TickAngDisplacement ==
  /\ pc["host"] = "t_ang_displacement"
  /\ frame' = [frame EXCEPT !["host"] =
                 ReadThreshold(ReadState("host", {PoseRead}),
                               "max_safe_ang_displacement")]
  /\ IF angularDistanceYaw(robot_pose.pose, frame["host"].ref.pose)
          > params.max_safe_ang_displacement
       THEN Goto("host", "t_too_far")
       ELSE Goto("host", "t_command")
  /\ UNCHANGED <<current_goal, replanning_flag, robot_pose, robot_twist,
                 params, motion_planner, controller, last, state_mtx>>
  /\ UNCHANGED filter

\* lines 123-129
TickTooFar(enabled) ==
  /\ pc["host"] = "t_too_far"
  /\ current_goal' = NoGoal
  /\ replanning_flag' = deviationFlag(replanning_flag, enabled)
  /\ last' = Log("computeVelocityCommands", FALSE,
                 deviationCommand(frame["host"].cmd_in),
                 {"reference_pose"}, {"computeReference"})
  /\ state_mtx' = "free"
  /\ Return("host")
  /\ UNCHANGED <<robot_pose, robot_twist, params, motion_planner,
                 controller>>
  /\ UNCHANGED filter

\* lines 131-138
TickCommand ==
  LET ref == frame["host"].ref
      acc == ControllerAccumulate(controller, robot_pose.pose, ref.pose)
      map_cmd == computeCommand(controller, robot_pose.pose, ref.pose,
                                robot_twist, ref.twist)
  IN  /\ pc["host"] = "t_command"
      /\ AccumInBounds(acc)
      /\ controller' = acc
      /\ frame' = [frame EXCEPT !["host"] =
                     [ReadState("host", {StampRead, PoseRead, TwistRead})
                        EXCEPT !.cmd = twistToRobotFrame(robot_pose.pose.q,
                                                         map_cmd)]]
      /\ Goto("host", "t_lin_limit")
      /\ UNCHANGED <<current_goal, replanning_flag, robot_pose, robot_twist,
                     params, motion_planner, last, state_mtx>>
      /\ UNCHANGED filter

\* lines 319-327 of safeVelocityCommands, called at line 140
TickLinLimit ==
  /\ pc["host"] = "t_lin_limit"
  /\ frame' = [frame EXCEPT !["host"] =
                 [ReadThreshold(frame["host"], "max_safe_lin_velocity")
                    EXCEPT !.lin_limit = params.max_safe_lin_velocity]]
  /\ Goto("host", "t_ang_limit")
  /\ UNCHANGED <<current_goal, replanning_flag, robot_pose, robot_twist,
                 params, motion_planner, controller, last, state_mtx>>
  /\ UNCHANGED filter

\* lines 328-332 of safeVelocityCommands
TickAngLimit ==
  /\ pc["host"] = "t_ang_limit"
  /\ frame' = [frame EXCEPT !["host"] =
                 [ReadThreshold(frame["host"], "max_safe_ang_velocity")
                    EXCEPT !.cmd =
                      safeVelocityCommands(
                        [params EXCEPT !.max_safe_lin_velocity =
                                          frame["host"].lin_limit],
                        frame["host"].cmd)]]
  /\ Goto("host", "t_publish_twist")
  /\ UNCHANGED <<current_goal, replanning_flag, robot_pose, robot_twist,
                 params, motion_planner, controller, last, state_mtx>>
  /\ UNCHANGED filter

\* lines 141-143
TickPublishTwist ==
  /\ pc["host"] = "t_publish_twist"
  /\ last' = Log("computeVelocityCommands", TRUE, frame["host"].cmd,
                 {"reference_pose", "cmd_navigation"},
                 {"computeReference", "computeCommand"})
  /\ state_mtx' = "free"
  /\ Return("host")
  /\ UNCHANGED <<current_goal, replanning_flag, robot_pose, robot_twist,
                 params, motion_planner, controller>>
  /\ UNCHANGED filter

\* ---- isGoalReached, lines 146-160: no lock is taken
GoalCall ==
  /\ pc["host"] = "idle"
  /\ Goto("host", "g_goal")
  /\ frame' = [frame EXCEPT !["host"] =
                 [op |-> "isGoalReached", robot_state |-> {},
                  thresholds |-> {}]]
  /\ UNCHANGED <<current_goal, replanning_flag, robot_pose, robot_twist,
                 params, motion_planner, controller, last, state_mtx>>
  /\ UNCHANGED filter

\* lines 147-148
GoalNull ==
  /\ pc["host"] = "g_goal"
  /\ IF current_goal = NoGoal
       THEN /\ last' = Log("isGoalReached", FALSE, ZeroTwist, {}, {})
            /\ Return("host")
       ELSE /\ Goto("host", "g_lin_tolerance")
            /\ UNCHANGED <<last, frame>>
  /\ UNCHANGED <<current_goal, replanning_flag, robot_pose, robot_twist,
                 params, motion_planner, controller, state_mtx>>
  /\ UNCHANGED filter

\* lines 149-150
GoalLinTolerance ==
  /\ pc["host"] = "g_lin_tolerance"
  /\ IF ~linearDistanceExceeds(robot_pose.pose, current_goal,
                               params.goal_lin_tolerance)
       THEN /\ Goto("host", "g_ang_tolerance")
            /\ frame' = [frame EXCEPT !["host"] =
                           ReadThreshold(ReadState("host", {PoseRead}),
                                         "goal_lin_tolerance")]
            /\ last' = last
       ELSE /\ last' = Log("isGoalReached", FALSE, ZeroTwist, {}, {})
            /\ Return("host")
  /\ UNCHANGED <<current_goal, replanning_flag, robot_pose, robot_twist,
                 params, motion_planner, controller, state_mtx>>
  /\ UNCHANGED filter

\* lines 151-152
GoalAngTolerance ==
  /\ pc["host"] = "g_ang_tolerance"
  /\ IF angularDistanceYaw(robot_pose.pose, current_goal)
          <= params.goal_ang_tolerance
       THEN /\ Goto("host", "g_reached")
            /\ frame' = [frame EXCEPT !["host"] =
                           ReadThreshold(ReadState("host", {PoseRead}),
                                         "goal_ang_tolerance")]
            /\ last' = last
       ELSE /\ last' = Log("isGoalReached", FALSE, ZeroTwist, {}, {})
            /\ Return("host")
  /\ UNCHANGED <<current_goal, replanning_flag, robot_pose, robot_twist,
                 params, motion_planner, controller, state_mtx>>
  /\ UNCHANGED filter

\* lines 153-157
GoalReached ==
  /\ pc["host"] = "g_reached"
  /\ current_goal' = NoGoal
  /\ replanning_flag' = reachedFlag(replanning_flag)
  /\ last' = Log("isGoalReached", TRUE, ZeroTwist, {}, {})
  /\ Return("host")
  /\ UNCHANGED <<robot_pose, robot_twist, params, motion_planner,
                 controller, state_mtx>>
  /\ UNCHANGED filter

\* ---- setPlan, lines 162-178: no lock is taken
PlanCall(waypoints) ==
  /\ pc["host"] = "idle"
  /\ Goto("host", "p_check")
  /\ frame' = [frame EXCEPT !["host"] =
                 [op |-> "setPlan", waypoints |-> waypoints,
                  new_goal |-> FALSE, robot_state |-> {},
                  thresholds |-> {}]]
  /\ UNCHANGED <<current_goal, replanning_flag, robot_pose, robot_twist,
                 params, motion_planner, controller, last, state_mtx>>
  /\ UNCHANGED filter

\* lines 164-167
PlanCheck ==
  LET waypoints == frame["host"].waypoints
  IN  /\ pc["host"] = "p_check"
      /\ IF waypoints = <<>>
           THEN /\ last' = Log("setPlan", FALSE, ZeroTwist, {}, {})
                /\ Return("host")
           ELSE IF ~replanningFlag(replanning_flag)
                  THEN /\ last' = Log("setPlan", TRUE, ZeroTwist, {}, {})
                       /\ Return("host")
                  ELSE /\ Goto("host", "p_goal")
                       /\ UNCHANGED <<last, frame>>
      /\ UNCHANGED <<current_goal, replanning_flag, robot_pose, robot_twist,
                     params, motion_planner, controller, state_mtx>>
      /\ UNCHANGED filter

\* lines 168-171: the goal and the controller
PlanGoal ==
  LET waypoints == frame["host"].waypoints
      new       == newGoal(current_goal, back(waypoints))
  IN  /\ pc["host"] = "p_goal"
      /\ IF new
           THEN /\ current_goal' = back(waypoints)
                /\ controller' = ControllerReset(robot_pose.stamp)
                /\ frame' = [frame EXCEPT !["host"] =
                               [ReadState("host", {StampRead}) EXCEPT
                                  !.new_goal = TRUE]]
           ELSE UNCHANGED <<current_goal, controller, frame>>
      /\ Goto("host", "p_trajectory")
      /\ UNCHANGED <<replanning_flag, robot_pose, robot_twist, params,
                     motion_planner, last, state_mtx>>
      /\ UNCHANGED filter

\* lines 172-177: the trajectory
PlanTrajectory ==
  LET waypoints == frame["host"].waypoints
      stamp     == robot_pose.stamp
  IN  /\ pc["host"] = "p_trajectory"
      /\ IF frame["host"].new_goal
           THEN /\ motion_planner' = MotionPlannerReset(waypoints, stamp)
                /\ last' = Log("setPlan", TRUE, ZeroTwist, {"trajectory"},
                               {"controller.reset", "motion_planner.reset"})
           ELSE /\ motion_planner' =
                     MotionPlannerUpdate(motion_planner, waypoints, stamp)
                /\ last' = Log("setPlan", TRUE, ZeroTwist, {"trajectory"},
                               {"motion_planner.update"})
      /\ Return("host")
      /\ UNCHANGED <<current_goal, replanning_flag, robot_pose, robot_twist,
                     params, controller, state_mtx>>
      /\ UNCHANGED filter

\* ---- odomCallback, lines 180-198
OdomCall(k) ==
  /\ pc["spinner"] = "idle"
  /\ Goto("spinner", "o_lock")
  /\ frame' = [frame EXCEPT !["spinner"] =
                 [op |-> "odomCallback", update |-> k]]
  /\ UNCHANGED <<current_goal, replanning_flag, robot_pose, robot_twist,
                 params, motion_planner, controller, last, state_mtx>>
  /\ UNCHANGED filter

\* line 184
OdomLock ==
  /\ pc["spinner"] = "o_lock"
  /\ mutexAvailable(state_mtx, "spinner")
  /\ state_mtx' = "spinner"
  /\ Goto("spinner", "o_wait")
  /\ UNCHANGED <<current_goal, replanning_flag, robot_pose, robot_twist,
                 params, motion_planner, controller, last, frame>>
  /\ UNCHANGED filter

\* lines 185-192: waitForTransform blocks until the transform is there, for
\* 0.1 s at most
OdomWait ==
  /\ pc["spinner"] = "o_wait"
  /\ Goto("spinner", "o_transform")
  /\ UNCHANGED <<current_goal, replanning_flag, robot_pose, robot_twist,
                 params, motion_planner, controller, last, state_mtx,
                 frame>>
  /\ UNCHANGED filter

\* A faulty variant: the catch block returns with the mutex still locked.
OdomTransform_KeepsLock(available) ==
  /\ pc["spinner"] = "o_transform"
  /\ IF available
       THEN /\ robot_pose' =
                 [robot_pose EXCEPT
                    !.pose = UpdatePose(frame["spinner"].update)]
            /\ Goto("spinner", "o_stamp")
            /\ UNCHANGED <<last, state_mtx, frame>>
       ELSE /\ last' = TransformFailureLog
            /\ Return("spinner")
            /\ UNCHANGED <<robot_pose, state_mtx>>
  /\ UNCHANGED <<current_goal, replanning_flag, robot_twist, params,
                 motion_planner, controller>>
  /\ UNCHANGED filter

\* line 193: transformPose assigns the pose of robot_pose_, or throws and
\* the catch block (lines 195-197) is left with nothing written
OdomTransform(available) ==
  /\ pc["spinner"] = "o_transform"
  /\ IF available
       THEN /\ robot_pose' =
                 [robot_pose EXCEPT
                    !.pose = UpdatePose(frame["spinner"].update)]
            /\ Goto("spinner", "o_stamp")
            /\ UNCHANGED <<last, state_mtx, frame>>
       ELSE /\ last' = TransformFailureLog
            /\ state_mtx' = IF state_mtx = "spinner" THEN "free"
                                                     ELSE state_mtx
            /\ Return("spinner")
            /\ UNCHANGED robot_pose
  /\ UNCHANGED <<current_goal, replanning_flag, robot_twist, params,
                 motion_planner, controller>>
  /\ UNCHANGED filter

\* line 193: transformPose assigns the header of robot_pose_
OdomStamp ==
  /\ pc["spinner"] = "o_stamp"
  /\ robot_pose' = [robot_pose EXCEPT !.stamp = frame["spinner"].update]
  /\ Goto("spinner", "o_twist")
  /\ UNCHANGED <<current_goal, replanning_flag, robot_twist, params,
                 motion_planner, controller, last, state_mtx, frame>>
  /\ UNCHANGED filter

\* lines 194 and 198
OdomTwist ==
  /\ pc["spinner"] = "o_twist"
  /\ robot_twist' = twistToGlobalFrame(robot_pose.pose.q,
                                       UpdateTwist(frame["spinner"].update))
  /\ last' = CallbackLog
  /\ state_mtx' = IF state_mtx = "spinner" THEN "free" ELSE state_mtx
  /\ Return("spinner")
  /\ UNCHANGED <<current_goal, replanning_flag, robot_pose, params,
                 motion_planner, controller>>
  /\ UNCHANGED filter

\* ---- reconfigureCallback, lines 200-210: no lock is taken
ReconfCall(config) ==
  /\ pc["spinner"] = "idle"
  /\ Goto("spinner", "r_assign")
  /\ frame' = [frame EXCEPT !["spinner"] =
                 [op |-> "reconfigureCallback", config |-> config,
                  field |-> 1]]
  /\ UNCHANGED <<current_goal, replanning_flag, robot_pose, robot_twist,
                 params, motion_planner, controller, last, state_mtx>>
  /\ UNCHANGED filter

\* one of the lines 203-208
ReconfAssign ==
  LET f     == frame["spinner"]
      field == ConfigFields[f.field]
  IN  /\ pc["spinner"] = "r_assign"
      /\ params' = [params EXCEPT ![field] = f.config[field]]
      /\ IF f.field = Len(ConfigFields)
           THEN /\ last' = CallbackLog
                /\ Return("spinner")
           ELSE /\ frame' = [frame EXCEPT !["spinner"].field = @ + 1]
                /\ UNCHANGED <<last, pc>>
      /\ UNCHANGED <<current_goal, replanning_flag, robot_pose, robot_twist,
                     motion_planner, controller, state_mtx>>
      /\ UNCHANGED filter

ThreadInit ==
  /\ current_goal = NoGoal
  /\ replanning_flag \in BOOLEAN
  /\ robot_pose = [pose |-> ZeroPose, stamp |-> 0]
  /\ robot_twist = ZeroTwist
  /\ params \in ThreadConfigs
  /\ motion_planner = [waypoints |-> <<>>, start |-> 0]
  /\ controller = NoAccum
  /\ last = Log("initialize", TRUE, ZeroTwist, {}, {})
  /\ ThreadsIdle
  /\ FilterIdle

HostTick ==
  \/ TickCall
  \/ TickLock
  \/ \E unsafe \in SUBSET Observers : TickObservers(unsafe)
  \/ TickReference
  \/ TickPublishReference
  \/ TickLinDisplacement
  \/ TickAngDisplacement
  \/ \E enabled \in BOOLEAN : TickTooFar(enabled)
  \/ TickCommand
  \/ TickLinLimit
  \/ TickAngLimit
  \/ TickPublishTwist

HostGoal ==
  GoalCall \/ GoalNull \/ GoalLinTolerance \/ GoalAngTolerance
    \/ GoalReached

HostPlan ==
  \/ \E waypoints \in ThreadPlans : PlanCall(waypoints)
  \/ PlanCheck
  \/ PlanGoal
  \/ PlanTrajectory

SpinnerOdom ==
  \/ \E k \in ThreadUpdates : OdomCall(k)
  \/ OdomLock
  \/ OdomWait
  \/ \E available \in BOOLEAN : OdomTransform(available)
  \/ OdomStamp
  \/ OdomTwist

SpinnerReconf ==
  \/ \E config \in ThreadConfigs : ReconfCall(config)
  \/ ReconfAssign

PlannerReplan ==
  /\ plannerRequestsReplanning
  /\ UNCHANGED <<threads, filter>>

ThreadNext ==
  HostTick \/ HostGoal \/ HostPlan \/ SpinnerOdom \/ SpinnerReconf
    \/ PlannerReplan

ThreadSpec == ThreadInit /\ [][ThreadNext]_vars

\* The pieces of RobotState and the thresholds the call of the host has
\* read so far.
HostReads      == frame["host"].robot_state
HostThresholds == frame["host"].thresholds

\* The statements of the host that read robot_pose_ or read or write
\* current_goal_.
HostAccessLabels ==
  {"t_reference", "t_lin_displacement", "t_ang_displacement", "t_too_far",
   "t_command", "g_goal", "g_lin_tolerance", "g_ang_tolerance", "g_reached",
   "p_goal", "p_trajectory"}

\* odomCallback is between its first and its last write of RobotState.
PoseUpdateWriting == pc["spinner"] \in {"o_stamp", "o_twist"}

\* C17: whatever is interleaved, the pose, the time stamp and the twist a
\* tick reads, from the reference to the frame conversion, are those one
\* completed odometry update (or initialize) has left.
C17_TickSeesOneUpdate ==
  frame["host"].op = TickName
    => \E k \in 0..MaxCoord :
         \A piece \in HostReads : piece[2] = UpdateState(k)[piece[1]]

\* A tick has read the stamp, the pose and the twist of an update while
\* odomCallback waits for the mutex with the next message.
C17_Witness ==
  /\ frame["host"].op = TickName
  /\ Cardinality(HostReads) = 3
  /\ robot_pose.stamp >= 1
  /\ pc["host"] = "t_lin_limit"
  /\ pc["spinner"] = "o_lock"

\* C18: while odomCallback is writing RobotState, no operation of the host
\* is at a statement that reads the stored pose or reads or writes the goal
\* without holding state_mtx_.
C18_AccessSerialized ==
  (pc["host"] \in HostAccessLabels /\ PoseUpdateWriting)
    => state_mtx = "host"

\* C19: state_mtx_ is not held across a blocking call: neither by
\* odomCallback at waitForTransform and transformPose, nor by the tick at
\* its publications; no tick waits for the mutex while odomCallback waits
\* for the transform.
C19_NoBlockingUnderLock ==
  /\ pc["spinner"] \in {"o_wait", "o_transform"} => state_mtx # "spinner"
  /\ pc["host"] \in {"t_publish_reference", "t_publish_twist"}
       => state_mtx # "host"
  /\ ~(pc["host"] = "t_lock" /\ pc["spinner"] = "o_wait")

\* C20: the thresholds one tick or one goal query reads all come from one
\* configuration, whatever reconfigureCallback interleaves.
C20_ThresholdsFromOneConfig ==
  frame["host"].op \in {TickName, "isGoalReached"}
    => \E config \in ThreadConfigs :
         \A th \in HostThresholds : config[th[1]] = th[2]

\* C21: after a setPlan with waypoints while replanning is owed a goal is
\* set, within 1e-8 of the terminal waypoint in position and heading; from
\* no goal the call installs the terminal waypoint and resets the
\* controller and the motion planner.  Only setPlan sets a goal.
C21_GoalFollowsPlan ==
  [][/\ (last'.op = "setPlan" /\ replanning_flag) =>
          \A waypoints \in WaypointSeqs :
           (waypoints # <<>> /\ setPlan(waypoints))
             => /\ current_goal' # NoGoal
                /\ linearDistance2DSq(current_goal', back(waypoints))
                     <= Eps * Eps
                /\ angularDistanceYaw(current_goal', back(waypoints)) <= Eps
                /\ current_goal = NoGoal
                     => /\ current_goal' = back(waypoints)
                        /\ "controller.reset" \in last'.calls
                        /\ "motion_planner.reset" \in last'.calls
                        /\ controller' = NoAccum
                        /\ motion_planner' = [waypoints |-> waypoints,
                                              start |-> robot_pose.stamp]
     /\ (current_goal = NoGoal /\ current_goal' # NoGoal)
          => last'.op = "setPlan"]_vars

\* setPlan has installed the terminal waypoint of a plan of two waypoints as
\* the goal, one time unit after initialization, away from the robot.
C21_Witness ==
  /\ last.op = "setPlan"
  /\ last.calls = {"controller.reset", "motion_planner.reset"}
  /\ Len(motion_planner.waypoints) = 2
  /\ current_goal = back(motion_planner.waypoints)
  /\ motion_planner.start = 1
  /\ linearDistance2DSq(current_goal, robot_pose.pose) > Eps * Eps

\* What current_goal_ can hold.
Goals == Poses \cup {NoGoal}

\* A faulty variant: without a goal the tick stops the robot.
tickOutcome_IdleStops(goal, cmd_in, unsafe) ==
  LET ref == computeReference(motion_planner, robot_pose.stamp)
      map_cmd == computeCommand(controller, robot_pose.pose, ref.pose,
                                robot_twist, ref.twist)
      branch  == tickBranch(unsafe, params, robot_pose.pose, ref.pose)
  IN  IF goal = NoGoal \/ branch = "veto"
        THEN [ret |-> TRUE, cmd |-> ZeroTwist]
        ELSE IF branch = "deviation"
               THEN [ret |-> FALSE, cmd |-> deviationCommand(cmd_in)]
               ELSE [ret |-> TRUE,
                     cmd |-> safeVelocityCommands(
                               params,
                               twistToRobotFrame(robot_pose.pose.q, map_cmd))]

\* What computeVelocityCommands returns and leaves in the caller's twist in
\* the current state, were current_goal_ to hold `goal': no statement of the
\* function reads current_goal_.
tickOutcome(goal, cmd_in, unsafe) ==
  LET ref == computeReference(motion_planner, robot_pose.stamp)
      map_cmd == computeCommand(controller, robot_pose.pose, ref.pose,
                                robot_twist, ref.twist)
      branch  == tickBranch(unsafe, params, robot_pose.pose, ref.pose)
  IN  IF branch = "veto"
        THEN [ret |-> TRUE, cmd |-> ZeroTwist]
        ELSE IF branch = "deviation"
               THEN [ret |-> FALSE, cmd |-> deviationCommand(cmd_in)]
               ELSE [ret |-> TRUE,
                     cmd |-> safeVelocityCommands(
                               params,
                               twistToRobotFrame(robot_pose.pose.q, map_cmd))]

\* C22: what a tick returns and writes to the caller's twist is what it
\* would return and write under every other value of the goal, absent or
\* set, the rest of the state being the same.
C22_TickIgnoresGoal ==
  [][last'.op = TickName =>
      \A cmd_in \in CmdInputs, unsafe \in SUBSET Observers, enabled \in BOOLEAN :
       computeVelocityCommands(cmd_in, unsafe, enabled)
         => \A goal \in Goals :
              tickOutcome(goal, cmd_in, unsafe)
                = [ret |-> last'.ret, cmd |-> last'.cmd]]_vars

\* A tick without a goal has issued a non-zero command along the
\* trajectory of the last plan.
C22_Witness ==
  /\ last.op = TickName
  /\ "cmd_navigation" \in last.pub
  /\ last.cmd # ZeroTwist
  /\ current_goal = NoGoal
  /\ motion_planner.waypoints # <<>>

\* ------------------------------------------------- threads, fair scheduling
\* The scheduler lets a thread that can take a step take one, and a thread
\* that waits for state_mtx_ get it if the mutex is free again and again.
ThreadFairSpec ==
  /\ ThreadSpec
  /\ WF_vars(HostTick)
  /\ WF_vars(SpinnerOdom)
  /\ SF_vars(TickLock)
  /\ SF_vars(OdomLock)

\* The tick has come to the controller with accumulators beyond MaxAccum:
\* the run leaves the bounded model.
AccumulatorsExhausted ==
  /\ pc["host"] = "t_command"
  /\ ~AccumInBounds(ControllerAccumulate(controller, robot_pose.pose,
                                         frame["host"].ref.pose))

\* C23: a thread that is in neither of the two locking operations does not
\* hold state_mtx_, whichever way the operation was left; under fair
\* scheduling every tick that has started returns and every pose update
\* that has started returns.
C23_LockedOperationsComplete ==
  /\ [](\A t \in Threads : pc[t] = "idle" => state_mtx # t)
  /\ (pc["host"] = "t_lock")
       ~> (pc["host"] = "idle" \/ AccumulatorsExhausted)
  /\ (pc["spinner"] = "o_lock")
       ~> (pc["spinner"] = "idle" \/ AccumulatorsExhausted)

\* A tick waits for the mutex that a pose update holds, and the update is
\* about to fail on the transform.
C23_Witness ==
  /\ pc["host"] = "t_lock"
  /\ state_mtx = "spinner"
  /\ pc["spinner"] = "o_transform"

\* --------------------------------------- tfPointCloud (preprocessing.cpp)
\* The point cloud filter node.  Lengths are integers in centimetres.  A
\* point is [x, z, finite]: x forward, z upward, finite what pcl_isfinite
\* answers for x.  A cloud is the sequence of its points; the code's index
\* i of a point is position i + 1 of the sequence.
MaxPoints == 3     \* points per cloud handed to preprocessing on its own
MaxTeam   == 2     \* OpenMP threads of the parallel loop
MaxFrames == 2     \* the frame counter is 0..MaxFrames

GroundHeight     == 2     \* 0.02 m, preprocessing.cpp:229
MinDynamicPoints == 50    \* preprocessing.cpp:108

Point(x, z, finite) == [x |-> x, z |-> z, finite |-> finite]

SensorPoints ==
  { Point(x, z, TRUE) : x \in 0..1, z \in 1..2 } \cup {Point(0, 1, FALSE)}

\* A point that is neither on the ground nor, for any threshold, in front.
DynamicPoint == Point(0, 2, TRUE)

SensorOffsets == 0..1
Thresholds    == 0..1

RECURSIVE CloudsOfLen(_)
CloudsOfLen(n) ==
  IF n = 0 THEN {<<>>}
  ELSE { Append(c, pt) : c \in CloudsOfLen(n - 1), pt \in SensorPoints }

SensorClouds == UNION { CloudsOfLen(n) : n \in 0..MaxPoints }

Range(seq) == { seq[k] : k \in 1..Len(seq) }

\* lines 215-219: the points whose x is finite, in order
removeInfinite(cloud) == SelectSeq(cloud, LAMBDA pt : pt.finite)

\* line 222: pcl::transformPointCloud with the sensor's offset, here its
\* height over base_link
transformPointCloud(cloud, trans) ==
  [k \in 1..Len(cloud) |-> [cloud[k] EXCEPT !.z = @ + trans]]

\* line 229: the test of one point
isGroundOrFar(pt, threshold) ==
  pt.z < GroundHeight \/ pt.x > threshold

\* lines 226-227: the iterations of `#pragma omp parallel for' that thread t
\* of a team runs, under the static schedule
chunkStart(n, team, t) ==
  t * (n \div team) + (IF t < n % team THEN t ELSE n % team)

chunkEnd(n, team, t) ==
  chunkStart(n, team, t) + (n \div team) + (IF t < n % team THEN 1 ELSE 0)

\* lines 232-241: the loop over is_ground that fills the two index lists
RECURSIVE collectFrom(_, _, _)
collectFrom(flags, count, lists) ==
  IF count = Len(flags) THEN lists
  ELSE collectFrom(flags, count + 1,
                   IF flags[count + 1]
                     THEN [lists EXCEPT !.static = Append(@, count)]
                     ELSE [lists EXCEPT !.dynamic = Append(@, count)])

collectIndices(flags) ==
  collectFrom(flags, 0, [static |-> <<>>, dynamic |-> <<>>])

\* ---- preprocessing, statement by statement
\* lines 211-223: the call up to the parallel loop
PrepCall(cloud_msg, team) ==
  LET processed == transformPointCloud(removeInfinite(cloud_msg),
                                       sensor_base_link_trans)
      n == Len(processed)
  IN  /\ prep_pc = "idle"
      /\ cloud_processed' = processed
      /\ is_ground' = [k \in 1..n |-> FALSE]
      /\ omp' = [t \in 0..(team - 1) |->
                   [next |-> chunkStart(n, team, t),
                    end  |-> chunkEnd(n, team, t),
                    loaded |-> FALSE,
                    word |-> <<>>]]
      /\ static_indices' = <<>>
      /\ dynamic_indices' = <<>>
      /\ prep_pc' = "c_loop"
      /\ UNCHANGED <<sensor_base_link_trans, static_front_threshold, counter,
                     previous_cloud, previous_dynamic>>

\* line 229, and the first half of line 230: is_ground is a
\* std::vector<bool>, whose elements share a word; to set one the thread
\* loads the word
OmpTest(t) ==
  /\ prep_pc = "c_loop"
  /\ t \in DOMAIN omp
  /\ ~omp[t].loaded
  /\ omp[t].next < omp[t].end
  /\ IF isGroundOrFar(cloud_processed[omp[t].next + 1],
                      static_front_threshold)
       THEN omp' = [omp EXCEPT ![t] = [@ EXCEPT !.loaded = TRUE,
                                                !.word = is_ground]]
       ELSE omp' = [omp EXCEPT ![t].next = @ + 1]
  /\ UNCHANGED <<sensor_base_link_trans, static_front_threshold, counter,
                 previous_cloud, previous_dynamic, cloud_processed,
                 is_ground, static_indices, dynamic_indices, prep_pc>>

\* the second half of line 230: the thread stores the word with the bit set
OmpStore(t) ==
  /\ prep_pc = "c_loop"
  /\ t \in DOMAIN omp
  /\ omp[t].loaded
  /\ is_ground' = [omp[t].word EXCEPT ![omp[t].next + 1] = TRUE]
  /\ omp' = [omp EXCEPT ![t] = [@ EXCEPT !.next = @ + 1,
                                          !.loaded = FALSE,
                                          !.word = <<>>]]
  /\ UNCHANGED <<sensor_base_link_trans, static_front_threshold, counter,
                 previous_cloud, previous_dynamic, cloud_processed,
                 static_indices, dynamic_indices, prep_pc>>

\* line 231: the barrier at the end of the parallel loop
OmpJoin ==
  /\ prep_pc = "c_loop"
  /\ \A t \in DOMAIN omp : omp[t].next = omp[t].end /\ ~omp[t].loaded
  /\ prep_pc' = "c_collect"
  /\ UNCHANGED <<sensor_base_link_trans, static_front_threshold, counter,
                 previous_cloud, previous_dynamic, cloud_processed,
                 is_ground, static_indices, dynamic_indices, omp>>

\* lines 232-241
PrepCollect ==
  /\ prep_pc = "c_collect"
  /\ static_indices' = collectIndices(is_ground).static
  /\ dynamic_indices' = collectIndices(is_ground).dynamic
  /\ prep_pc' = "done"
  /\ UNCHANGED <<sensor_base_link_trans, static_front_threshold, counter,
                 previous_cloud, previous_dynamic, cloud_processed,
                 is_ground, omp>>

\* line 246: the call returns; the caller has the cloud and the lists
PrepReturn ==
  /\ prep_pc = "done"
  /\ cloud_processed' = <<>>
  /\ is_ground' = <<>>
  /\ static_indices' = <<>>
  /\ dynamic_indices' = <<>>
  /\ omp' = <<>>
  /\ prep_pc' = "idle"
  /\ UNCHANGED <<sensor_base_link_trans, static_front_threshold, counter,
                 previous_cloud, previous_dynamic>>

\* The local planner is not running.
PlannerIdle ==
  /\ current_goal = NoGoal
  /\ replanning_flag = FALSE
  /\ robot_pose = [pose |-> ZeroPose, stamp |-> 0]
  /\ robot_twist = ZeroTwist
  /\ params = CHOOSE config \in Configs : config.goal_lin_tolerance = 0
  /\ motion_planner = [waypoints |-> <<>>, start |-> 0]
  /\ controller = NoAccum
  /\ last = Log("initialize", TRUE, ZeroTwist, {}, {})

ClassifyInit ==
  /\ PlannerIdle
  /\ ThreadsIdle
  /\ sensor_base_link_trans \in SensorOffsets
  /\ static_front_threshold \in Thresholds
  /\ counter = 0
  /\ previous_cloud = <<>>
  /\ previous_dynamic = <<>>
  /\ cloud_processed = <<>>
  /\ is_ground = <<>>
  /\ static_indices = <<>>
  /\ dynamic_indices = <<>>
  /\ omp = <<>>
  /\ prep_pc = "idle"

ClassifyCall ==
  /\ \E cloud_msg \in SensorClouds, team \in 1..MaxTeam :
       PrepCall(cloud_msg, team)
  /\ UNCHANGED <<planner, last, threads>>
ClassifyTest ==
  /\ \E t \in 0..(MaxTeam - 1) : OmpTest(t)
  /\ UNCHANGED <<planner, last, threads>>
ClassifyStore ==
  /\ \E t \in 0..(MaxTeam - 1) : OmpStore(t)
  /\ UNCHANGED <<planner, last, threads>>
ClassifyJoin ==
  /\ OmpJoin
  /\ UNCHANGED <<planner, last, threads>>
ClassifyCollect ==
  /\ PrepCollect
  /\ UNCHANGED <<planner, last, threads>>
ClassifyReturn ==
  /\ PrepReturn
  /\ UNCHANGED <<planner, last, threads>>

ClassifyNext ==
  ClassifyCall \/ ClassifyTest \/ ClassifyStore \/ ClassifyJoin
    \/ ClassifyCollect \/ ClassifyReturn

ClassifySpec == ClassifyInit /\ [][ClassifyNext]_vars

\* The index list holds each of its entries once, in ascending order.
Ascending(indices) ==
  \A j, k \in 1..Len(indices) : j < k => indices[j] < indices[k]

\* The two lists hold the indices 0..n-1 of the processed cloud, each index
\* in one list only, each list in ascending order.
IndicesPartition ==
  /\ Range(static_indices) \cup Range(dynamic_indices)
       = 0..(Len(cloud_processed) - 1)
  /\ Range(static_indices) \cap Range(dynamic_indices) = {}
  /\ Ascending(static_indices)
  /\ Ascending(dynamic_indices)

\* C24: when preprocessing returns, static_indices and dynamic_indices
\* partition the indices of the processed cloud, each in ascending order,
\* and an index is in static_indices exactly when its point has z below
\* 0.02 or x above static_front_threshold, also for a parallel loop.
C24_IndicesClassifyPoints ==
  prep_pc = "done"
    => /\ IndicesPartition
       /\ \A i \in 0..(Len(cloud_processed) - 1) :
            i \in Range(static_indices)
              <=> isGroundOrFar(cloud_processed[i + 1],
                                static_front_threshold)

\* ---- msgCallback, one step per message
\* The points of the messages: one that is on the ground or in front for
\* some offsets and thresholds, and one whose x is not finite.
FilterPoints == {Point(1, 1, TRUE), Point(0, 1, FALSE)}

\* The clouds of the messages: at most one point, a run of dynamic points,
\* at most one point.
DynamicCounts == {0, MinDynamicPoints, MinDynamicPoints + 1}

Repeat(pt, n) == [k \in 1..n |-> pt]

FilterClouds ==
  { head \o Repeat(DynamicPoint, nd) \o tail :
      head \in {<<>>} \cup { <<pt>> : pt \in FilterPoints },
      tail \in {<<>>} \cup { <<pt>> : pt \in FilterPoints },
      nd \in DynamicCounts }

\* What the dynamic_filter service answers in cloud_static.
ResponsePoint == Point(1, 0, TRUE)
Responses == {<<>>, <<ResponsePoint>>}

Max(set) == CHOOSE i \in set : \A j \in set : j <= i

\* lines 226-231 as one step: the sets of indices whose flag the racing
\* stores of a team can lose.  One thread loses none; a store of one thread
\* can wipe the flags set since its load by the others, and the last store
\* of all stays.
raceOutcomes(processed, threshold, team) ==
  LET n == Len(processed)
      chunk(t) == { i \in chunkStart(n, team, t)..(chunkEnd(n, team, t) - 1) :
                      isGroundOrFar(processed[i + 1], threshold) }
      writers == { t \in 0..(team - 1) : chunk(t) # {} }
      statics == UNION { chunk(t) : t \in writers }
  IN  IF Cardinality(writers) <= 1 THEN {{}}
      ELSE { lost \in SUBSET statics :
               \E t \in writers : Max(chunk(t)) \notin lost }

\* lines 223-241 as one step: the flags and the index lists of a processed
\* cloud, `lost' the flags the parallel loop has lost
classifyPoints(processed, threshold, lost) ==
  collectIndices([k \in 1..Len(processed) |->
                    /\ isGroundOrFar(processed[k], threshold)
                    /\ (k - 1) \notin lost])

\* what preprocessing hands back through its reference parameters
preprocessingResult(processed, lists) ==
  [cloud_processed |-> processed,
   static_indices  |-> lists.static,
   dynamic_indices |-> lists.dynamic]

\* lines 211-241: preprocessing as one step
preprocessingOf(processed, threshold, lost) ==
  preprocessingResult(processed, classifyPoints(processed, threshold, lost))

preprocessing(cloud_msg, trans, threshold, lost) ==
  preprocessingOf(transformPointCloud(removeInfinite(cloud_msg), trans),
                  threshold, lost)

\* lines 82-83: pcl::copyPointCloud(cloud, indices, out)
copyPointCloud(cloud, indices) ==
  [k \in 1..Len(indices) |-> cloud[indices[k] + 1]]

\* A faulty variant: fifty potentially dynamic points are enough.
callsDynamicFilter_AtFifty(dynamic_cloud) ==
  Len(dynamic_cloud) >= MinDynamicPoints

\* line 108
callsDynamicFilter(dynamic_cloud) ==
  Len(dynamic_cloud) > MinDynamicPoints

\* What msgCallback met (the TransformFound parameter, the processed cloud,
\* the flags lost, the answer of the service) and what it published on
\* /kinect/depth/static and requested from dynamic_filter, in order.
FilterLog(found, processed, lost, call_ok, response, pub, calls) ==
  [op |-> "msgCallback", found |-> found, processed |-> processed,
   lost |-> lost, call_ok |-> call_ok, response |-> response,
   pub |-> pub, calls |-> calls]

\* lines 63-145.  transform_found is the value of the TransformFound
\* parameter, call_ok what client.call returns, response its cloud_static.
msgCallback(sensor_msg, transform_found, lost, call_ok, response) ==
  IF ~transform_found
    THEN /\ last' = FilterLog(FALSE, <<>>, {}, FALSE, <<>>, <<>>, <<>>)
         /\ UNCHANGED <<counter, previous_cloud, previous_dynamic>>
    ELSE /\ counter < MaxFrames
         /\ \E pre \in {preprocessing(sensor_msg, sensor_base_link_trans,
                                      static_front_threshold, lost)} :
            \E static_cloud \in {copyPointCloud(pre.cloud_processed,
                                                pre.static_indices)},
               dynamic_cloud \in {copyPointCloud(pre.cloud_processed,
                                                 pre.dynamic_indices)} :
              LET called   == callsDynamicFilter(dynamic_cloud)
                  request  == [cloud |-> dynamic_cloud, frame_id |-> counter]
                  filtered == IF called /\ call_ok
                                THEN previous_cloud \o response
                                ELSE previous_cloud
              IN  /\ counter' = counter + 1
                  /\ last' = FilterLog(TRUE, pre.cloud_processed, lost,
                                       call_ok, response, <<filtered>>,
                                       IF called THEN <<request>> ELSE <<>>)
                  /\ previous_cloud' = static_cloud
                  /\ previous_dynamic' = dynamic_cloud

\* The flags the parallel loop can lose on a message in the current state,
\* for the teams of 1..MaxTeam threads.
lostFlags(sensor_msg) ==
  UNION { raceOutcomes(transformPointCloud(removeInfinite(sensor_msg),
                                           sensor_base_link_trans),
                       static_front_threshold, team) : team \in 1..MaxTeam }

FilterInit ==
  /\ PlannerIdle
  /\ ThreadsIdle
  /\ sensor_base_link_trans \in SensorOffsets
  /\ static_front_threshold \in Thresholds
  /\ counter = 0
  /\ previous_cloud = <<>>
  /\ previous_dynamic = <<>>
  /\ cloud_processed = <<>>
  /\ is_ground = <<>>
  /\ static_indices = <<>>
  /\ dynamic_indices = <<>>
  /\ omp = <<>>
  /\ prep_pc = "idle"

FilterDrop ==
  /\ \E sensor_msg \in FilterClouds :
       msgCallback(sensor_msg, FALSE, {}, FALSE, <<>>)
  /\ UNCHANGED <<planner, threads, sensor_base_link_trans,
                 static_front_threshold, cloud_processed, is_ground,
                 static_indices, dynamic_indices, omp, prep_pc>>
FilterMessage ==
  /\ \E sensor_msg \in FilterClouds, call_ok \in BOOLEAN,
        response \in Responses :
       \E lost \in lostFlags(sensor_msg) :
         msgCallback(sensor_msg, TRUE, lost, call_ok, response)
  /\ UNCHANGED <<planner, threads, sensor_base_link_trans,
                 static_front_threshold, cloud_processed, is_ground,
                 static_indices, dynamic_indices, omp, prep_pc>>

FilterNext == FilterDrop \/ FilterMessage

FilterSpec == FilterInit /\ [][FilterNext]_vars

\* The points of a cloud at the positions that pass the test, in order.
Kept(cloud, Test(_)) ==
  LET positions == SelectSeq([k \in 1..Len(cloud) |-> k], Test)
  IN  [j \in 1..Len(positions) |-> cloud[positions[j]]]

\* The static points of a processed cloud: those on the ground or in
\* front whose flag has stayed.
StaticPoints(processed, lost) ==
  Kept(processed,
       LAMBDA k : /\ isGroundOrFar(processed[k], static_front_threshold)
                  /\ (k - 1) \notin lost)

\* Its potentially dynamic points: all the others.
PotentiallyDynamicPoints(processed, lost) ==
  Kept(processed,
       LAMBDA k : ~(/\ isGroundOrFar(processed[k], static_front_threshold)
                    /\ (k - 1) \notin lost))

\* What the claim lets a processed message publish and store.
FilteredAsClaimed(statics, dynamics) ==
  /\ counter' = counter + 1
  /\ Len(last'.pub) = 1
  /\ last'.pub[1] =
       IF Len(dynamics) > MinDynamicPoints /\ last'.call_ok
         THEN previous_cloud \o last'.response
         ELSE previous_cloud
  /\ Len(last'.calls) <= 1
  /\ Len(dynamics) <= MinDynamicPoints => last'.calls = <<>>
  /\ previous_cloud' = statics

\* C25: a message that arrives while TransformFound is false publishes
\* nothing, calls no service, and leaves the frame counter and the stored
\* clouds as they are.  Every other message adds one to the frame counter
\* and publishes one cloud: the static points of the message processed
\* before it (which each processed message stores), followed by the
\* service's static points only if the message has more than 50
\* potentially dynamic points and the call succeeds; with 50 or fewer the
\* service is not called.
C25_MessageFiltered ==
  [][last'.op = "msgCallback" =>
      IF ~last'.found
        THEN /\ last'.pub = <<>>
             /\ last'.calls = <<>>
             /\ UNCHANGED <<counter, previous_cloud, previous_dynamic>>
        ELSE FilteredAsClaimed(
               StaticPoints(last'.processed, last'.lost),
               PotentiallyDynamicPoints(last'.processed, last'.lost))]_vars

\* The second message has 51 potentially dynamic points and the service
\* has answered: the cloud published is the static point of the first
\* message and the point of the answer.
C25_Witness ==
  /\ last.op = "msgCallback"
  /\ last.found
  /\ counter = 2
  /\ Len(last.calls) = 1
  /\ Len(last.calls[1].cloud) = MinDynamicPoints + 1
  /\ Len(last.pub) = 1
  /\ Len(last.pub[1]) = 2
  /\ last.pub[1][1] = Point(1, 1, TRUE)
  /\ last.pub[1][2] = ResponsePoint

====
